---- MODULE Spec2Model ----
(***************************************************************************)
(* LightChain (consensus/light/LightChain.js): the light-client chain      *)
(* engine.  State: the ChainData store, the head pointer (_headHash,       *)
(* _mainChain), the current proof, the Synchronizer's queue, and the       *)
(* position of the running pushHeader / pushProof body between its awaits. *)
(***************************************************************************)
EXTENDS Integers, Sequences, FiniteSets, TLC

\* ---------------------------------------------------------------- result codes
ERR_ORPHAN == -2
ERR_INVALID == -1
OK_KNOWN == 0
OK_EXTENDED == 1
OK_REBRANCHED == 2
OK_FORKED == 3

\* Policy.K (dense suffix length) and Policy.M (minimum superblock count).
K == 2
M == 2

\* ---------------------------------------------------------------- bounds
\* Calls submitted and not yet completed: callers that wait for each call (Spec)
\* and callers that submit while earlier calls are running or waiting
\* (SpecConcurrent).
MaxInFlight == 1
MaxConcurrent == 3

\* ---------------------------------------------------------------- blocks
\* The blocks and headers the environment can produce.  A header and the block
\* built from it share one identifier; hash() maps it to its Hash.
\*   G - A - B - C          (difficulty 1, 1, 1, 2)
\*    \- A2 - B2            (difficulty 2, 3: A2 totals what B totals)
\*   O: valid PoW, unknown predecessor      P: invalid PoW, unknown predecessor
\*   I: child of A, wrong interlink hash    N: child of G with a wrong height
\*   D: child of A, nBits differ from the next target
ValidIds == {"G", "A", "B", "C", "A2", "B2"}
BadIds == {"O", "P", "I", "N", "D"}
BlockIds == ValidIds \cup BadIds

NoHash == "h0"
Hashes == {"hG", "hA", "hB", "hC", "hA2", "hB2", "hO", "hP", "hI", "hN", "hD", "hU"}

MkBlock(hash, prevHash, height, difficulty, nBits, interlinkHash, pow, depth, nextTarget) ==
    [hash |-> hash, prevHash |-> prevHash, height |-> height, difficulty |-> difficulty,
     nBits |-> nBits, interlinkHash |-> interlinkHash, pow |-> pow, depth |-> depth,
     nextTarget |-> nextTarget]

\* BlockUtils.targetToCompact: one size byte above the mantissa.
targetToCompact(target) == 2^24 + target

\* Block.getNextInterlink(target).hash(): determined by the predecessor and the
\* successor's target.
getNextInterlinkHash(predHash, nBits) == <<"il", predHash, nBits>>

Blk ==
    [b \in BlockIds |->
        CASE b = "G"  -> MkBlock("hG", NoHash, 1, 1, targetToCompact(6), <<"il", NoHash, 0>>, TRUE, 0, -1)
          [] b = "A"  -> MkBlock("hA", "hG", 2, 1, targetToCompact(6),
                                 getNextInterlinkHash("hG", targetToCompact(6)), TRUE, 0, 6)
          [] b = "B"  -> MkBlock("hB", "hA", 3, 1, targetToCompact(6),
                                 getNextInterlinkHash("hA", targetToCompact(6)), TRUE, 0, -1)
          [] b = "C"  -> MkBlock("hC", "hB", 4, 2, targetToCompact(3),
                                 getNextInterlinkHash("hB", targetToCompact(3)), TRUE, 1, -1)
          [] b = "A2" -> MkBlock("hA2", "hG", 2, 2, targetToCompact(2),
                                 getNextInterlinkHash("hG", targetToCompact(2)), TRUE, 0, -1)
          [] b = "B2" -> MkBlock("hB2", "hA2", 3, 3, targetToCompact(3),
                                 getNextInterlinkHash("hA2", targetToCompact(3)), TRUE, 1, -1)
          [] b = "O"  -> MkBlock("hO", "hU", 2, 1, targetToCompact(6),
                                 getNextInterlinkHash("hU", targetToCompact(6)), TRUE, 0, -1)
          [] b = "P"  -> MkBlock("hP", "hU", 2, 1, targetToCompact(6),
                                 getNextInterlinkHash("hU", targetToCompact(6)), FALSE, 0, -1)
          [] b = "I"  -> MkBlock("hI", "hA", 3, 1, targetToCompact(6),
                                 <<"il", "hU", 0>>, TRUE, 0, -1)
          [] b = "N"  -> MkBlock("hN", "hG", 3, 1, targetToCompact(6),
                                 getNextInterlinkHash("hG", targetToCompact(6)), TRUE, 0, -1)
          [] b = "D"  -> MkBlock("hD", "hA", 3, 2, targetToCompact(3),
                                 getNextInterlinkHash("hA", targetToCompact(3)), TRUE, 0, -1)]

GENESIS == "G"
hash(b) == Blk[b].hash
prevHash(b) == Blk[b].prevHash
height(b) == Blk[b].height
difficulty(b) == Blk[b].difficulty

\* BlockUtils.getTargetDepth(BlockUtils.hashToTarget(hash)): the superblock level.
getTargetDepth(b) == Blk[b].depth

\* BlockUtils.realDifficulty(hash): the work the hash itself shows.
realDifficulty(b) == 2^getTargetDepth(b)

verifyProofOfWork(h) == Blk[h].pow

isImmediateSuccessorOf(h, pred) ==
    /\ prevHash(h) = hash(pred)
    /\ height(h) = height(pred) + 1

\* BaseChain.getNextTarget(predecessor): -1 while the retarget window is not
\* available.
getNextTarget(pred) == Blk[pred].nextTarget
isValidTarget(target) == target >= 1

\* ---------------------------------------------------------------- ChainData
NoData == [head |-> "-", totalDifficulty |-> 0, totalWork |-> 0, onMainChain |-> FALSE]

ChainData(head, totalDifficulty, totalWork, onMainChain) ==
    [head |-> head, totalDifficulty |-> totalDifficulty, totalWork |-> totalWork,
     onMainChain |-> onMainChain]

EmptyStore == [h \in Hashes |-> NoData]

\* ChainDataStore.getChainData / getBlock / putChainData / truncate
getChainData(st, h) == IF h \in Hashes THEN st[h] ELSE NoData
getBlock(st, h) == getChainData(st, h).head
putChainData(st, h, data) == [st EXCEPT ![h] = data]
truncate(st) == EmptyStore

\* ---------------------------------------------------------------- proofs
\* ChainProof(prefix: BlockChain, suffix: HeaderChain) the environment can submit.
\*   PG: the genesis proof            P1: [G] + [A, B]      PA: [G, A] + [B, C]
\*   PV: suffix not anchored to the prefix head (verify() fails)
\*   PL: suffix of a length that is neither K nor head.height - 1
\*   PI: suffix header I carries a wrong interlink hash
ProofIds == {"PG", "P1", "PA", "PV", "PL", "PI"}

Proofs ==
    [p \in ProofIds |->
        CASE p = "PG" -> [prefix |-> <<"G">>, suffix |-> <<>>]
          [] p = "P1" -> [prefix |-> <<"G">>, suffix |-> <<"A", "B">>]
          [] p = "PA" -> [prefix |-> <<"G", "A">>, suffix |-> <<"B", "C">>]
          [] p = "PV" -> [prefix |-> <<"G">>, suffix |-> <<"B", "C">>]
          [] p = "PL" -> [prefix |-> <<"G", "A">>, suffix |-> <<"B">>]
          [] p = "PI" -> [prefix |-> <<"G">>, suffix |-> <<"A", "I">>]]

Last(seq) == seq[Len(seq)]
Range(seq) == {seq[i] : i \in 1..Len(seq)}

\* BlockChain.head, ChainProof.head
prefixHead(p) == Last(Proofs[p].prefix)
proofHead(p) == IF Len(Proofs[p].suffix) > 0 THEN Last(Proofs[p].suffix) ELSE prefixHead(p)

RECURSIVE IsAncestor(_, _)
\* a is b or a block below b on b's prevHash path
IsAncestor(a, b) ==
    \/ a = b
    \/ \E q \in BlockIds : hash(q) = prevHash(b) /\ IsAncestor(a, q)

\* ChainProof.verify(): the prefix starts at genesis and is a chain of valid
\* blocks, the suffix is dense and anchored to the prefix head.
verify(p) ==
    LET pfx == Proofs[p].prefix
        sfx == Proofs[p].suffix
    IN  /\ Len(pfx) >= 1
        /\ pfx[1] = GENESIS
        /\ \A i \in 1..Len(pfx) : verifyProofOfWork(pfx[i])
        /\ \A i \in 1..(Len(pfx) - 1) : pfx[i] # pfx[i + 1] /\ IsAncestor(pfx[i], pfx[i + 1])
        /\ \A i \in 1..Len(sfx) : verifyProofOfWork(sfx[i])
        /\ \A i \in 1..Len(sfx) :
              isImmediateSuccessorOf(sfx[i], IF i = 1 THEN Last(pfx) ELSE sfx[i - 1])

\* The interlink check of the suffix: every header's interlinkHash is the one
\* computed from the block before it.
suffixInterlinksOk(p) ==
    LET pfx == Proofs[p].prefix
        sfx == Proofs[p].suffix
    IN  \A i \in 1..Len(sfx) :
            Blk[sfx[i]].interlinkHash =
                getNextInterlinkHash(hash(IF i = 1 THEN Last(pfx) ELSE sfx[i - 1]), Blk[sfx[i]].nBits)

suffixLengthOk(p) ==
    \/ Len(Proofs[p].suffix) = K
    \/ Len(Proofs[p].suffix) = height(proofHead(p)) - 1

RECURSIVE SumDifficulty(_)
\* HeaderChain.totalDifficulty()
SumDifficulty(seq) ==
    IF seq = <<>> THEN 0 ELSE difficulty(seq[1]) + SumDifficulty(Tail(seq))

\* BlockChain.lowestCommonAncestor: the highest block present in both chains.
lowestCommonAncestor(chain1, chain2) ==
    LET common == {chain1[i] : i \in 1..Len(chain1)} \cap {chain2[i] : i \in 1..Len(chain2)}
    IN  CHOOSE b \in common : \A c \in common : height(c) <= height(b)

RECURSIVE ScoreLoop(_, _, _, _)
\* the second loop of _getProofScore: <<depth, sum>> when it ends
ScoreLoop(counts, depth, sum, m) ==
    IF depth < 0 THEN <<depth, sum>>
    ELSE LET s == sum + counts[depth]
         IN  IF s >= m THEN <<depth, s>> ELSE ScoreLoop(counts, depth - 1, s, m)

getProofScore(chain, lca, m) ==
    LET used == {i \in 1..Len(chain) : ~(height(chain[i]) < height(lca))}
        depths == {getTargetDepth(chain[i]) : i \in used}
        length == IF depths = {} THEN 0
                  ELSE 1 + CHOOSE d \in depths : \A e \in depths : e <= d
        counts == [d \in 0..(length - 1) |-> Cardinality({i \in used : getTargetDepth(chain[i]) = d})]
        end == ScoreLoop(counts, length - 1, 0, m)
        depth == IF end[1] > 0 THEN end[1] ELSE 0
    IN  2^depth * end[2]

isBetterProof(p1, p2, m) ==
    LET lca == lowestCommonAncestor(Proofs[p1].prefix, Proofs[p2].prefix)
        score1 == getProofScore(Proofs[p1].prefix, lca, m)
        score2 == getProofScore(Proofs[p2].prefix, lca, m)
    IN  IF score1 = score2
        THEN SumDifficulty(Proofs[p1].suffix) >= SumDifficulty(Proofs[p2].suffix)
        ELSE score1 > score2

\* ---------------------------------------------------------------- state
VARIABLES
    store,       \* ChainDataStore: Hash -> ChainData (NoData when absent)
    headHash,    \* this._headHash
    mainChain,   \* this._mainChain
    proof,       \* this._proof
    queue,       \* Synchronizer: the calls waiting to run
    cur,         \* the running body: its call, its await point and its locals
    fired,       \* head-changed payloads fired by the running (or last) body
    pre,         \* the engine state when the running (or last) body started
    done,        \* the last completed call and what it returned
    prevPushed,  \* the header the call before that one stored, or "-"
    adopted,     \* the proof last handed to _acceptProof
    base,        \* the hash the last store reset made the chain start at
    active,      \* bodies started and not yet completed
    scoring      \* a call of _getProofScore on its own: its arguments and results

vars == <<store, headHash, mainChain, proof, queue, cur, fired, pre, done, prevPushed,
          adopted, base, active, scoring>>

engine == <<store, headHash, mainChain, proof>>

Ctx(kind, arg, pc) ==
    [kind |-> kind, arg |-> arg, pc |-> pc, status |-> "running", code |-> 0,
     accepted |-> FALSE, blk |-> "-", prevData |-> NoData, chainData |-> NoData, forkChain |-> <<>>,
     forkHashes |-> <<>>, curHash |-> NoHash, headHashL |-> NoHash, headDataL |-> NoData,
     i |-> 0, j |-> 0, suffix |-> <<>>, codes |-> <<>>, reset |-> FALSE]

Idle == Ctx("idle", "-", "idle")

Snapshot == [store |-> store, headHash |-> headHash, mainChain |-> mainChain,
             proof |-> proof, adopted |-> adopted, base |-> base]

GenesisData == ChainData(GENESIS, difficulty(GENESIS), realDifficulty(GENESIS), TRUE)

\* no call of _getProofScore on its own
NoScoring == [pc |-> "none", chain |-> <<>>, lca |-> GENESIS, m |-> M, block |-> GENESIS,
              before |-> 0, after |-> 0]

\* constructor + _init()
InitChain ==
    /\ store = putChainData(EmptyStore, hash(GENESIS), GenesisData)
    /\ headHash = hash(GENESIS)
    /\ mainChain = GenesisData
    /\ proof = "PG"
    /\ queue = <<>>
    /\ cur = Idle
    /\ fired = <<>>
    /\ pre = [store |-> putChainData(EmptyStore, hash(GENESIS), GenesisData),
              headHash |-> hash(GENESIS), mainChain |-> GenesisData, proof |-> "PG",
              adopted |-> "PG", base |-> hash(GENESIS)]
    /\ done = Idle
    /\ prevPushed = "-"
    /\ adopted = "PG"
    /\ base = hash(GENESIS)
    /\ active = 0

Init == InitChain /\ scoring = NoScoring

\* ---------------------------------------------------------------- Synchronizer
Running == cur.kind # "idle"
InFlight == Len(queue) + (IF Running THEN 1 ELSE 0)

\* Synchronizer.push(thunk): the thunk waits behind those pushed before it.
SynchronizerPush(call) ==
    /\ queue' = Append(queue, call)
    /\ UNCHANGED <<engine, cur, fired, pre, done, prevPushed, adopted, base, active, scoring>>

\* a slip: the body is started at once, past the Synchronizer
pushHeader_direct(header) ==
    /\ cur' = Ctx("header", header, "ph_getBlock")
    /\ pre' = Snapshot
    /\ fired' = <<>>
    /\ prevPushed' = "-"
    /\ done' = Idle
    /\ active' = active + 1
    /\ UNCHANGED <<engine, queue, adopted, base, scoring>>

\* pushHeader(header) / pushProof(proof): hand the body to the Synchronizer.
pushHeader(header) == SynchronizerPush([kind |-> "header", arg |-> header])

pushProof(p) == SynchronizerPush([kind |-> "proof", arg |-> p])

\* The thunk the Synchronizer runs next.
NextThunk == Head(queue)

\* Synchronizer: with no thunk running, take the next one and start its body.
SynchronizerRun ==
    /\ ~Running
    /\ queue # <<>>
    /\ cur' = Ctx(NextThunk.kind, NextThunk.arg,
                  IF NextThunk.kind = "header" THEN "ph_getBlock" ELSE "pp_verify")
    /\ queue' = Tail(queue)
    /\ pre' = Snapshot
    /\ fired' = <<>>
    /\ prevPushed' = IF /\ done.kind = "header"
                        /\ done.status = "returned"
                        /\ done.code \in {OK_EXTENDED, OK_REBRANCHED, OK_FORKED}
                     THEN done.arg ELSE "-"
    /\ done' = Idle
    /\ active' = active + 1
    /\ UNCHANGED <<engine, adopted, base, scoring>>

\* Synchronizer: the body returned (or threw); its caller's promise is settled.
SynchronizerDone ==
    /\ cur.pc = "done"
    /\ done' = cur
    /\ cur' = Idle
    /\ active' = active - 1
    /\ UNCHANGED <<engine, queue, fired, pre, prevPushed, adopted, base, scoring>>

\* ---------------------------------------------------------------- returning
\* the body of the running call returns `code` / `flag`, or throws
ReturnHeader(c, code) == [c EXCEPT !.pc = "done", !.status = "returned", !.code = code]
ReturnProof(c, flag) == [c EXCEPT !.pc = "done", !.status = "returned", !.accepted = flag]
Throw(c) == [c EXCEPT !.pc = "done", !.status = "threw"]

\* _acceptProof: the loop over the suffix; c.j suffix blocks are through.
NextSuffix(c) ==
    IF c.j >= Len(c.suffix) THEN ReturnProof(c, TRUE)
    ELSE [c EXCEPT !.pc = "pb_getBlock", !.j = @ + 1]

\* _pushHeader / _pushBlock returned `code` to its caller: pushHeader's caller
\* gets it, _acceptProof asserts result >= 0 and goes on with the suffix.
ReturnCode(c, code) ==
    IF c.kind = "header" THEN ReturnHeader(c, code)
    ELSE IF code >= 0 THEN NextSuffix([c EXCEPT !.codes = Append(@, code)])
    ELSE Throw([c EXCEPT !.codes = Append(@, code)])

\* ---------------------------------------------------------------- _pushBlockInternal
\* what the steps of a body leave alone besides the engine state
aux == <<proof, queue, pre, done, prevPushed, active, scoring>>
ghost == <<adopted, base>>

\* get head(): the payload of head-changed
head == mainChain.head

\* line 255: the block extends the main chain
ExtendsHead(b) == prevHash(b) = headHash

\* a slip: a chain that is as hard as the main chain replaces it
IsHarder_orEqual(totalDifficulty) == totalDifficulty >= mainChain.totalDifficulty

\* a slip: the total difficulty is compared with the main chain's total work
IsHarder_work(totalDifficulty) == totalDifficulty > mainChain.totalWork

\* line 270: the new chain is harder than the main chain
IsHarder(totalDifficulty) == totalDifficulty > mainChain.totalDifficulty

\* a slip: the predecessor's total is left out
TotalDifficulty_own(prevData, b) == difficulty(b)

\* line 250
TotalDifficulty(prevData, b) == prevData.totalDifficulty + difficulty(b)

\* _pushBlockInternal up to its first await: build the ChainData, then put it as
\* the new head, or enter _rebranch (which first awaits the fork's predecessor),
\* or put it as a fork.
PushBlockInternal(c, b, prevData) ==
    LET totalDifficulty == TotalDifficulty(prevData, b)
        totalWork == prevData.totalWork + realDifficulty(b)
        chainData == ChainData(b, totalDifficulty, totalWork, FALSE)
        onMain == [chainData EXCEPT !.onMainChain = TRUE]
    IN  IF ExtendsHead(b)
        THEN /\ store' = putChainData(store, hash(b), onMain)
             /\ cur' = [c EXCEPT !.blk = b, !.chainData = onMain, !.pc = "pbi_extendPut"]
        ELSE IF IsHarder(totalDifficulty)
        THEN /\ store' = store
             /\ cur' = [c EXCEPT !.blk = b, !.chainData = chainData,
                                 !.forkChain = <<chainData>>, !.forkHashes = <<hash(b)>>,
                                 !.curHash = prevHash(b), !.pc = "rb_getFork"]
        ELSE /\ store' = putChainData(store, hash(b), chainData)
             /\ cur' = [c EXCEPT !.blk = b, !.chainData = chainData, !.pc = "pbi_forkPut"]

\* a slip: head-changed is fired before the head pointer moves
PushBlockInternal_extended_fireFirst ==
    /\ cur.pc = "pbi_extendPut"
    /\ mainChain' = cur.chainData
    /\ headHash' = hash(cur.blk)
    /\ fired' = Append(fired, head)
    /\ cur' = ReturnCode(cur, OK_EXTENDED)
    /\ UNCHANGED <<store, ghost, aux>>

\* lines 260-266: the put of the new head returned
PushBlockInternal_extended ==
    /\ cur.pc = "pbi_extendPut"
    /\ mainChain' = cur.chainData
    /\ headHash' = hash(cur.blk)
    /\ fired' = Append(fired, cur.chainData.head)
    /\ cur' = ReturnCode(cur, OK_EXTENDED)
    /\ UNCHANGED <<store, ghost, aux>>

\* line 284: the put of the fork block returned
PushBlockInternal_forked ==
    /\ cur.pc = "pbi_forkPut"
    /\ cur' = ReturnCode(cur, OK_FORKED)
    /\ UNCHANGED <<engine, fired, ghost, aux>>

\* ---------------------------------------------------------------- _rebranch
\* a slip: the fork block is stored without the flag being set
SetOnMainChain_noFlag(c, i) ==
    /\ store' = putChainData(store, c.forkHashes[i], c.forkChain[i])
    /\ cur' = [c EXCEPT !.i = i - 1, !.pc = "rb_setPut"]

\* lines 328-332: one round of the loop that sets onMainChain on the fork
SetOnMainChain(c, i) ==
    LET forkData == [c.forkChain[i] EXCEPT !.onMainChain = TRUE]
    IN  /\ store' = putChainData(store, c.forkHashes[i], forkData)
        /\ cur' = [c EXCEPT !.forkChain[i] = forkData, !.i = i - 1, !.pc = "rb_setPut"]

\* a slip: the old main chain keeps its flags
UnsetOnMainChain_keep(c, hHash, hData, own) ==
    IF hHash # c.curHash
    THEN /\ store' = putChainData(store, hHash, hData)
         /\ mainChain' = mainChain
         /\ cur' = [c EXCEPT !.headHashL = hHash, !.headDataL = hData, !.pc = "rb_unsetPut"]
    ELSE /\ store' = putChainData(store, c.forkHashes[Len(c.forkChain)],
                                  [c.forkChain[Len(c.forkChain)] EXCEPT !.onMainChain = TRUE])
         /\ cur' = [c EXCEPT !.forkChain[Len(c.forkChain)].onMainChain = TRUE,
                             !.i = Len(c.forkChain) - 1, !.pc = "rb_setPut"]
         /\ mainChain' = mainChain

\* lines 318-325: the loop test with the locals headHash, headData; `own` says
\* that headData is the object this._mainChain
UnsetOnMainChain(c, hHash, hData, own) ==
    IF hHash # c.curHash
    THEN LET headData == [hData EXCEPT !.onMainChain = FALSE]
         IN  /\ store' = putChainData(store, hHash, headData)
             /\ mainChain' = IF own THEN headData ELSE mainChain
             /\ cur' = [c EXCEPT !.headHashL = hHash, !.headDataL = headData,
                                 !.pc = "rb_unsetPut"]
    ELSE /\ SetOnMainChain(c, Len(c.forkChain))
         /\ mainChain' = mainChain

\* lines 304-311: the fork's predecessor arrived from the store
Rebranch_getFork ==
    /\ cur.pc = "rb_getFork"
    /\ LET curData == getChainData(store, cur.curHash)
       IN  IF curData = NoData
           THEN /\ cur' = Throw(cur)
                /\ UNCHANGED <<store, mainChain>>
           ELSE IF ~curData.onMainChain
           THEN /\ cur' = [cur EXCEPT !.forkChain = Append(@, curData),
                                      !.forkHashes = Append(@, cur.curHash),
                                      !.curHash = prevHash(curData.head)]
                /\ UNCHANGED <<store, mainChain>>
           ELSE UnsetOnMainChain(cur, headHash, mainChain, TRUE)
    /\ UNCHANGED <<headHash, fired, ghost, aux>>

\* lines 320-323: the put of an unset block returned; ask for its predecessor
Rebranch_unsetPut ==
    /\ cur.pc = "rb_unsetPut"
    /\ cur' = [cur EXCEPT !.headHashL = prevHash(cur.headDataL.head), !.pc = "rb_unsetGet"]
    /\ UNCHANGED <<engine, fired, ghost, aux>>

\* lines 323-324, then the loop test again
Rebranch_unsetGet ==
    /\ cur.pc = "rb_unsetGet"
    /\ LET headData == getChainData(store, cur.headHashL)
       IN  IF headData = NoData
           THEN /\ cur' = Throw(cur)
                /\ UNCHANGED <<store, mainChain>>
           ELSE UnsetOnMainChain(cur, cur.headHashL, headData, FALSE)
    /\ UNCHANGED <<headHash, fired, ghost, aux>>

\* lines 328-335 and 275-277: the put of a fork block returned; set the next one,
\* or move the head pointer, fire head-changed and return OK_REBRANCHED
Rebranch_setPut ==
    /\ cur.pc = "rb_setPut"
    /\ IF cur.i >= 1
       THEN /\ SetOnMainChain(cur, cur.i)
            /\ UNCHANGED <<headHash, mainChain, fired>>
       ELSE /\ mainChain' = cur.forkChain[1]
            /\ headHash' = cur.forkHashes[1]
            /\ fired' = Append(fired, cur.forkChain[1].head)
            /\ cur' = ReturnCode(cur, OK_REBRANCHED)
            /\ store' = store
    /\ UNCHANGED <<ghost, aux>>

\* ---------------------------------------------------------------- _pushHeader
\* a slip: the known-block check is left out
PushHeader_getBlock_unchecked ==
    /\ cur.pc = "ph_getBlock"
    /\ cur' = [cur EXCEPT !.pc = "ph_verifyPoW"]
    /\ UNCHANGED <<engine, fired, ghost, aux>>

\* lines 197-201
PushHeader_getBlock ==
    /\ cur.pc = "ph_getBlock"
    /\ cur' = IF getBlock(store, hash(cur.arg)) # "-"
              THEN ReturnHeader(cur, OK_KNOWN)
              ELSE [cur EXCEPT !.pc = "ph_verifyPoW"]
    /\ UNCHANGED <<engine, fired, ghost, aux>>

\* lines 204-211
PushHeader_verifyPoW ==
    /\ cur.pc = "ph_verifyPoW"
    /\ cur' = IF ~verifyProofOfWork(cur.arg)
              THEN ReturnHeader(cur, ERR_INVALID)
              ELSE [cur EXCEPT !.pc = "ph_getPrev"]
    /\ UNCHANGED <<engine, fired, ghost, aux>>

\* a slip: retrieval-only leaves pass as predecessors
NotExtendable_missingOnly(prevData) == prevData = NoData

\* line 212: the predecessor is missing or a retrieval-only leaf
NotExtendable(prevData) == prevData = NoData \/ prevData.totalDifficulty <= 0

\* lines 211-215
PushHeader_getPrev ==
    /\ cur.pc = "ph_getPrev"
    /\ LET prevData == getChainData(store, prevHash(cur.arg))
       IN  cur' = IF NotExtendable(prevData)
                  THEN ReturnHeader(cur, ERR_ORPHAN)
                  ELSE [cur EXCEPT !.prevData = prevData, !.pc = "ph_validate"]
    /\ UNCHANGED <<engine, fired, ghost, aux>>

\* lines 219-242: successor, difficulty and interlink checks
HeaderValid(header, predecessor) ==
    /\ isImmediateSuccessorOf(header, predecessor)
    /\ isValidTarget(getNextTarget(predecessor))
          => Blk[header].nBits = targetToCompact(getNextTarget(predecessor))
    /\ getNextInterlinkHash(hash(predecessor), Blk[header].nBits) = Blk[header].interlinkHash

\* a slip: the block is stored before the checks
PushHeader_validate_putFirst ==
    /\ cur.pc = "ph_validate"
    /\ IF ~HeaderValid(cur.arg, cur.prevData.head)
       THEN /\ cur' = ReturnHeader(cur, ERR_INVALID)
            /\ store' = putChainData(store, hash(cur.arg),
                                     ChainData(cur.arg, TotalDifficulty(cur.prevData, cur.arg), 0, FALSE))
       ELSE PushBlockInternal(cur, cur.arg, cur.prevData)
    /\ UNCHANGED <<headHash, mainChain, fired, ghost, aux>>

\* lines 219-245
PushHeader_validate ==
    /\ cur.pc = "ph_validate"
    /\ IF ~HeaderValid(cur.arg, cur.prevData.head)
       THEN /\ cur' = ReturnHeader(cur, ERR_INVALID)
            /\ store' = store
       ELSE PushBlockInternal(cur, cur.arg, cur.prevData)
    /\ UNCHANGED <<headHash, mainChain, fired, ghost, aux>>

\* ---------------------------------------------------------------- _pushProof
\* lines 41-50: proof.verify() returned; then the suffix length
PushProof_verify ==
    /\ cur.pc = "pp_verify"
    /\ cur' = IF ~verify(cur.arg) THEN ReturnProof(cur, FALSE)
              ELSE IF ~suffixLengthOk(cur.arg) THEN ReturnProof(cur, FALSE)
              ELSE [cur EXCEPT !.pc = "pp_interlinks"]
    /\ UNCHANGED <<engine, fired, ghost, aux>>

\* lines 53-72: the suffix interlinks, then the comparison with this._proof;
\* a better proof enters _acceptProof, which first awaits the prefix head's data
PushProof_interlinks ==
    /\ cur.pc = "pp_interlinks"
    /\ IF ~suffixInterlinksOk(cur.arg)
       THEN /\ cur' = ReturnProof(cur, FALSE)
            /\ adopted' = adopted
       ELSE IF isBetterProof(cur.arg, proof, M)
       THEN /\ cur' = [cur EXCEPT !.suffix = Proofs[cur.arg].suffix, !.pc = "ap_getHead"]
            /\ adopted' = cur.arg
       ELSE /\ cur' = ReturnProof(cur, TRUE)
            /\ adopted' = adopted
    /\ UNCHANGED <<engine, fired, base, aux>>

\* ---------------------------------------------------------------- _acceptProof
\* a slip: the reset keeps the old entries
AcceptProof_getHead_keep ==
    /\ cur.pc = "ap_getHead"
    /\ LET headData == getChainData(store, hash(prefixHead(cur.arg)))
       IN  IF NotExtendable(headData)
           THEN /\ store' = store
                /\ cur' = [cur EXCEPT !.reset = TRUE, !.pc = "ap_truncate"]
           ELSE /\ store' = store
                /\ cur' = NextSuffix(cur)
    /\ UNCHANGED <<headHash, mainChain, fired, ghost, aux>>

\* lines 134-137: reset the store unless the prefix head is an extendable block
AcceptProof_getHead ==
    /\ cur.pc = "ap_getHead"
    /\ LET headData == getChainData(store, hash(prefixHead(cur.arg)))
       IN  IF NotExtendable(headData)
           THEN /\ store' = truncate(store)
                /\ cur' = [cur EXCEPT !.reset = TRUE, !.pc = "ap_truncate"]
           ELSE /\ store' = store
                /\ cur' = NextSuffix(cur)
    /\ UNCHANGED <<headHash, mainChain, fired, ghost, aux>>

\* a slip: _mainChain is not assigned with _headHash
AcceptProof_truncate_hashOnly ==
    /\ cur.pc = "ap_truncate"
    /\ LET b == prefixHead(cur.arg)
           data == ChainData(b, difficulty(b), realDifficulty(b), TRUE)
       IN  /\ headHash' = hash(b)
           /\ mainChain' = mainChain
           /\ store' = putChainData(store, hash(b), data)
    /\ base' = hash(prefixHead(cur.arg))
    /\ cur' = [cur EXCEPT !.i = 0, !.pc = "ap_putPrefix"]
    /\ UNCHANGED <<fired, adopted, aux>>

\* lines 141-143: the prefix head becomes the head of the chain
AcceptProof_truncate ==
    /\ cur.pc = "ap_truncate"
    /\ LET b == prefixHead(cur.arg)
           data == ChainData(b, difficulty(b), realDifficulty(b), TRUE)
       IN  /\ headHash' = hash(b)
           /\ mainChain' = data
           /\ store' = putChainData(store, hash(b), data)
    /\ base' = hash(prefixHead(cur.arg))
    /\ cur' = [cur EXCEPT !.i = 0, !.pc = "ap_putPrefix"]
    /\ UNCHANGED <<fired, adopted, aux>>

\* a slip: the loop runs over the whole prefix, the prefix head included
AcceptProof_putPrefix_all ==
    /\ cur.pc = "ap_putPrefix"
    /\ IF cur.i < Len(Proofs[cur.arg].prefix)
       THEN LET block == Proofs[cur.arg].prefix[cur.i + 1]
            IN  /\ store' = putChainData(store, hash(block), ChainData(block, -1, -1, TRUE))
                /\ cur' = [cur EXCEPT !.i = @ + 1]
       ELSE /\ store' = store
            /\ cur' = NextSuffix(cur)
    /\ UNCHANGED <<headHash, mainChain, fired, ghost, aux>>

\* lines 147-152: the other prefix blocks, retrieval only; cur.i are stored
AcceptProof_putPrefix ==
    /\ cur.pc = "ap_putPrefix"
    /\ IF cur.i < Len(Proofs[cur.arg].prefix) - 1
       THEN LET block == Proofs[cur.arg].prefix[cur.i + 1]
            IN  /\ store' = putChainData(store, hash(block), ChainData(block, -1, -1, TRUE))
                /\ cur' = [cur EXCEPT !.i = @ + 1]
       ELSE /\ store' = store
            /\ cur' = NextSuffix(cur)
    /\ UNCHANGED <<headHash, mainChain, fired, ghost, aux>>

\* ---------------------------------------------------------------- _pushBlock
\* lines 164-168
PushBlock_getBlock ==
    /\ cur.pc = "pb_getBlock"
    /\ cur' = IF getBlock(store, hash(cur.suffix[cur.j])) # "-"
              THEN ReturnCode(cur, OK_KNOWN)
              ELSE [cur EXCEPT !.pc = "pb_getPrev"]
    /\ UNCHANGED <<engine, fired, ghost, aux>>

\* lines 172-177
PushBlock_getPrev ==
    /\ cur.pc = "pb_getPrev"
    /\ LET block == cur.suffix[cur.j]
           prevData == getChainData(store, prevHash(block))
       IN  IF NotExtendable(prevData)
           THEN /\ cur' = ReturnCode(cur, ERR_ORPHAN)
                /\ store' = store
           ELSE PushBlockInternal(cur, block, prevData)
    /\ UNCHANGED <<headHash, mainChain, fired, ghost, aux>>

\* ---------------------------------------------------------------- specification
Step ==
    \/ PushHeader_getBlock
    \/ PushHeader_verifyPoW
    \/ PushHeader_getPrev
    \/ PushHeader_validate
    \/ PushBlockInternal_extended
    \/ PushBlockInternal_forked
    \/ Rebranch_getFork
    \/ Rebranch_unsetPut
    \/ Rebranch_unsetGet
    \/ Rebranch_setPut
    \/ PushProof_verify
    \/ PushProof_interlinks
    \/ AcceptProof_getHead
    \/ AcceptProof_truncate
    \/ AcceptProof_putPrefix
    \/ PushBlock_getBlock
    \/ PushBlock_getPrev
    \/ SynchronizerRun
    \/ SynchronizerDone

\* Callers that wait for the call they made before they make the next.
Next ==
    \/ \E header \in BlockIds \ {GENESIS} : InFlight < MaxInFlight /\ pushHeader(header)
    \/ \E p \in ProofIds : InFlight < MaxInFlight /\ pushProof(p)
    \/ Step

Spec == Init /\ [][Next]_vars

\* Callers that submit concurrently: the headers and the proof that take the
\* bodies through every await point (extend, fork, rebranch, reset, graft).
ConcurrentHeaders == {"A", "A2"}
ConcurrentProofs == {"PA"}

NextConcurrent ==
    \/ \E header \in ConcurrentHeaders : InFlight < MaxConcurrent /\ pushHeader(header)
    \/ \E p \in ConcurrentProofs : InFlight < MaxConcurrent /\ pushProof(p)
    \/ Step

SpecConcurrent == Init /\ [][NextConcurrent]_vars

\* The Synchronizer starts a waiting thunk when none runs, and an awaited store
\* or hash call returns: a step of the bodies that can be taken is taken.
SpecFair == Spec /\ WF_vars(Step)

\* ---------------------------------------------------------------- _getProofScore alone
\* The blocks of a set in the order of their heights.
ChainOf(blocks) ==
    [i \in 1..Cardinality(blocks) |->
        CHOOSE b \in blocks : Cardinality({x \in blocks : height(x) < height(b)}) = i - 1]

\* BlockChain: the prefixes a ChainProof can carry, from genesis upwards, every
\* block a descendant of the one before it (a prefix is sparse).
PrefixChains ==
    {ChainOf(blocks) : blocks \in
        {S \in SUBSET ValidIds : /\ GENESIS \in S
                                 /\ \A x, y \in S : IsAncestor(x, y) \/ IsAncestor(y, x)}}

\* the chain with one more block in it
WithBlock(chain, b) == ChainOf(Range(chain) \cup {b})

\* the calls: a prefix, a block of it as lca, m up to Policy.M, and a block at or
\* above lca.height that the prefix can take in
ScoreCalls ==
    {[pc |-> "start", chain |-> chain, lca |-> lca, m |-> m, block |-> b, before |-> 0, after |-> 0] :
        chain \in PrefixChains, lca \in ValidIds, m \in 1..M, b \in ValidIds}

ScoreInit ==
    /\ InitChain
    /\ scoring \in {c \in ScoreCalls : /\ c.lca \in Range(c.chain)
                                       /\ c.block \notin Range(c.chain)
                                       /\ \A x \in Range(c.chain) :
                                             IsAncestor(x, c.block) \/ IsAncestor(c.block, x)
                                       /\ ~(height(c.block) < height(c.lca))}

\* lines 99-121 on the prefix
GetProofScore_before ==
    /\ scoring.pc = "start"
    /\ scoring' = [scoring EXCEPT !.before = getProofScore(scoring.chain, scoring.lca, scoring.m),
                                  !.pc = "scored"]
    /\ UNCHANGED <<engine, queue, cur, fired, pre, done, prevPushed, adopted, base, active>>

\* lines 99-121 on the prefix with the block added
GetProofScore_after ==
    /\ scoring.pc = "scored"
    /\ scoring' = [scoring EXCEPT !.after = getProofScore(WithBlock(scoring.chain, scoring.block),
                                                          scoring.lca, scoring.m),
                                  !.pc = "done"]
    /\ UNCHANGED <<engine, queue, cur, fired, pre, done, prevPushed, adopted, base, active>>

ScoreNext == GetProofScore_before \/ GetProofScore_after

SpecScore == ScoreInit /\ [][ScoreNext]_vars

\* ---------------------------------------------------------------- reading the state
\* No body is running: every submitted call that started has completed.
Quiescent == ~Running

Stored(st, h) == getChainData(st, h) # NoData

MaxWalk == Cardinality(Hashes)

RECURSIVE MainPath(_, _, _, _)
\* The hashes met following prevHash from hash h through store st down to the
\* hash `stop`, as a sequence (head first); it ends early at a hash the store
\* does not hold.
MainPath(st, h, stop, fuel) ==
    IF ~Stored(st, h) \/ fuel = 0 THEN <<h>>
    ELSE IF h = stop THEN <<h>>
    ELSE <<h>> \o MainPath(st, prevHash(getChainData(st, h).head), stop, fuel - 1)

RECURSIVE SumOver(_, _)
SumOver(st, path) ==
    IF path = <<>> THEN 0
    ELSE difficulty(getChainData(st, path[1]).head) + SumOver(st, Tail(path))

\* the path from the head to the base of the chain in the current state
HeadPath == MainPath(store, headHash, base, MaxWalk)

\* ---------------------------------------------------------------- claims
\* C1: after completed operations, following prevHash from headHash through the
\* store reaches genesis or the adopted prefix head; every hash on the way is
\* stored and every visited ChainData has onMainChain = true.
C1_HeadPathOnMainChain ==
    Quiescent =>
        /\ base \in {hash(GENESIS), hash(prefixHead(adopted))}
        /\ Last(HeadPath) = base
        /\ \A h \in Range(HeadPath) : Stored(store, h) /\ getChainData(store, h).onMainChain

C1_Witness ==
    /\ Quiescent
    /\ done.kind = "header" /\ done.code = OK_REBRANCHED
    /\ Len(HeadPath) >= 3

\* C2: after a completed operation, at every height between the base of the
\* main chain and the head exactly one stored ChainData is on the main chain.
OnMainAt(ht) ==
    {h \in Hashes : /\ Stored(store, h)
                    /\ getChainData(store, h).onMainChain
                    /\ height(getChainData(store, h).head) = ht}

C2_OneMainBlockPerHeight ==
    Quiescent =>
        \A ht \in height(getChainData(store, base).head)..height(head) :
            Cardinality(OnMainAt(ht)) = 1

C2_Witness ==
    /\ Quiescent
    /\ done.kind = "header" /\ done.code = OK_REBRANCHED
    /\ height(head) < height(pre.mainChain.head)
    /\ Cardinality({h \in Hashes : Stored(store, h)}) >= 4

\* C3: mainChain.totalDifficulty is the sum of block.difficulty over the path
\* from the head back to genesis or to the prefix head of the last store reset.
C3_TotalDifficultyIsSum ==
    Quiescent => mainChain.totalDifficulty = SumOver(store, HeadPath)

C3_Witness ==
    /\ Quiescent
    /\ base # hash(GENESIS)
    /\ Len(HeadPath) >= 3
    /\ done.kind = "proof" /\ done.accepted

\* the engine state is what it was when the last body started, and that body
\* fired no head-changed event
Untouched ==
    /\ store = pre.store
    /\ headHash = pre.headHash
    /\ mainChain = pre.mainChain
    /\ proof = pre.proof
    /\ fired = <<>>

HeaderDone == Quiescent /\ done.kind = "header" /\ done.status = "returned"
ProofDone == Quiescent /\ done.kind = "proof" /\ done.status = "returned"

\* C4: a header whose push returned OK_EXTENDED, OK_REBRANCHED or OK_FORKED,
\* pushed again at once, returns OK_KNOWN; store, headHash and mainChain stay as
\* the first push left them and no head-changed event is fired.
C4_SecondPushKnown ==
    (HeaderDone /\ prevPushed = done.arg) => (done.code = OK_KNOWN /\ Untouched)

C4_Witness ==
    /\ HeaderDone
    /\ prevPushed = done.arg
    /\ done.code = OK_KNOWN
    /\ ~getChainData(store, hash(done.arg)).onMainChain

\* the header passes every check of _pushHeader in the state the body started in
PreData(h) == getChainData(pre.store, prevHash(h))
\* absent from the store, or stored with totalDifficulty <= 0
NoPredecessor(st, h) == ~Stored(st, h) \/ getChainData(st, h).totalDifficulty <= 0
PreAppendable(h) ==
    /\ ~Stored(pre.store, hash(h))
    /\ verifyProofOfWork(h)
    /\ ~NoPredecessor(pre.store, prevHash(h))
    /\ HeaderValid(h, PreData(h).head)

\* the stored blocks on the prevHash path from hash h, in the state the body started in
PrePath(h) == {x \in Range(MainPath(pre.store, h, pre.base, MaxWalk)) : Stored(pre.store, x)}

\* C5: a valid header pushed onto a block that is not the head, with a total
\* difficulty above the main chain's, returns OK_REBRANCHED; headHash is its hash,
\* the old main chain above the common ancestor is off the main chain, the fork
\* up to the new block is on it, and head-changed fired exactly once.
C5_Rebranch ==
    (/\ HeaderDone
     /\ PreAppendable(done.arg)
     /\ prevHash(done.arg) # pre.headHash
     /\ PreData(done.arg).totalDifficulty + difficulty(done.arg) > pre.mainChain.totalDifficulty)
    => LET oldMain == PrePath(pre.headHash)
           fork == PrePath(prevHash(done.arg)) \cup {hash(done.arg)}
       IN  /\ done.code = OK_REBRANCHED
           /\ headHash = hash(done.arg)
           /\ \A x \in oldMain \ fork : Stored(store, x) /\ ~getChainData(store, x).onMainChain
           /\ \A x \in fork \ oldMain : Stored(store, x) /\ getChainData(store, x).onMainChain
           /\ Len(fired) = 1

C5_Witness ==
    /\ HeaderDone
    /\ done.code = OK_REBRANCHED
    /\ Stored(pre.store, prevHash(done.arg))
    /\ ~PreData(done.arg).onMainChain
    /\ Cardinality(PrePath(pre.headHash) \ PrePath(prevHash(done.arg))) >= 2

\* C6 as stated: every header not in the store whose predecessor is absent or not
\* extendable returns ERR_ORPHAN and changes nothing.
C6_OrphanAnyHeader ==
    (/\ HeaderDone
     /\ ~Stored(pre.store, hash(done.arg))
     /\ NoPredecessor(pre.store, prevHash(done.arg)))
    => (done.code = ERR_ORPHAN /\ Untouched)

\* C6 amended: a header with a valid proof of work that is not in the store and
\* whose predecessor is absent or stored with totalDifficulty <= 0 returns
\* ERR_ORPHAN; store, headHash and mainChain are unchanged and no event is fired.
C6_OrphanAfterProofOfWork ==
    (/\ HeaderDone
     /\ ~Stored(pre.store, hash(done.arg))
     /\ verifyProofOfWork(done.arg)
     /\ NoPredecessor(pre.store, prevHash(done.arg)))
    => (done.code = ERR_ORPHAN /\ Untouched)

C6_Witness ==
    /\ HeaderDone
    /\ done.code = ERR_ORPHAN
    /\ Stored(pre.store, prevHash(done.arg))
    /\ PreData(done.arg).totalDifficulty <= 0

\* C7: a pushHeader that returns ERR_INVALID and a pushProof that returns false
\* leave store, headHash, mainChain and the current proof as they were, and fire
\* no head-changed event.
C7_RejectedChangesNothing ==
    (\/ HeaderDone /\ done.code = ERR_INVALID
     \/ ProofDone /\ ~done.accepted)
    => (Untouched /\ adopted = pre.adopted)

C7_Witness ==
    /\ ProofDone
    /\ ~done.accepted
    /\ ~suffixInterlinksOk(done.arg)
    /\ headHash # hash(GENESIS)

\* the proof passes the three checks of _pushProof
ProofValid(p) == verify(p) /\ suffixLengthOk(p) /\ suffixInterlinksOk(p)

\* p1 scores strictly lower than p2, both scored from their common ancestor
ScoresLower(p1, p2) ==
    LET lca == lowestCommonAncestor(Proofs[p1].prefix, Proofs[p2].prefix)
    IN  getProofScore(Proofs[p1].prefix, lca, M) < getProofScore(Proofs[p2].prefix, lca, M)

\* C8: a valid proof that scores strictly lower than the best proof adopted so
\* far returns true and leaves head, headHash, the store and the current proof
\* unchanged.
C8_WorseProofNotAdopted ==
    (/\ ProofDone
     /\ ProofValid(done.arg)
     /\ ScoresLower(done.arg, pre.adopted))
    => (done.accepted /\ Untouched /\ adopted = pre.adopted)

RECURSIVE SumReal(_)
SumReal(seq) == IF seq = <<>> THEN 0 ELSE realDifficulty(seq[1]) + SumReal(Tail(seq))

\* the store a reset to proof p builds from nothing: the prefix blocks for
\* retrieval only, the prefix head with its own difficulty, the suffix on top
ResetStore(p) ==
    LET prefix == Proofs[p].prefix
        suffix == Proofs[p].suffix
        b == prefixHead(p)
    IN  [h \in Hashes |->
            IF h = hash(b) THEN ChainData(b, difficulty(b), realDifficulty(b), TRUE)
            ELSE IF \E i \in 1..Len(prefix) : h = hash(prefix[i])
            THEN ChainData(CHOOSE x \in Range(prefix) : hash(x) = h, -1, -1, TRUE)
            ELSE IF \E k \in 1..Len(suffix) : h = hash(suffix[k])
            THEN LET k == CHOOSE k \in 1..Len(suffix) : h = hash(suffix[k])
                 IN  ChainData(suffix[k],
                               difficulty(b) + SumDifficulty(SubSeq(suffix, 1, k)),
                               realDifficulty(b) + SumReal(SubSeq(suffix, 1, k)), TRUE)
            ELSE NoData]

\* C9: an adopted proof whose prefix head is absent from the store (or stored
\* with totalDifficulty <= 0) returns true; nothing stored before survives: the
\* store holds the proof's blocks only, the prefix head as a main-chain block
\* with its own difficulty as total; every suffix block is appended with
\* OK_EXTENDED and headHash is the hash of proof.head.
C9_AdoptWithReset ==
    (/\ ProofDone
     /\ ProofValid(done.arg)
     /\ isBetterProof(done.arg, pre.proof, M)
     /\ NoPredecessor(pre.store, hash(prefixHead(done.arg))))
    => /\ done.accepted
       /\ store = ResetStore(done.arg)
       /\ done.codes = [i \in 1..Len(Proofs[done.arg].suffix) |-> OK_EXTENDED]
       /\ headHash = hash(proofHead(done.arg))
       /\ head = proofHead(done.arg)

C9_Witness ==
    /\ ProofDone
    /\ done.accepted
    /\ done.reset
    /\ Len(done.codes) = 2
    /\ Cardinality({h \in Hashes : Stored(pre.store, h)}) >= 3
    /\ \E h \in Hashes : Stored(pre.store, h) /\ ~Stored(store, h)

\* one step keeps the order of the Synchronizer: the body that starts is the one
\* pushed first, a submitted call waits behind those already waiting, and a
\* running body is left only by its own completion
FifoStep ==
    /\ (~Running /\ Running') =>
          /\ queue # <<>>
          /\ cur'.kind = Head(queue).kind /\ cur'.arg = Head(queue).arg
          /\ queue' = Tail(queue)
    /\ (Running /\ Running') => (cur'.kind = cur.kind /\ cur'.arg = cur.arg)
    /\ (Running /\ ~Running') =>
          (cur.pc = "done" /\ done'.kind = cur.kind /\ done'.arg = cur.arg)
    /\ Len(queue') > Len(queue) => SubSeq(queue', 1, Len(queue)) = queue
    /\ Len(queue') < Len(queue) => (~Running /\ Running')

\* C10: at every instant at most one pushProof / pushHeader body is between its
\* first and its last step, and the bodies start and complete in the order the
\* calls were submitted.
C10_OneBodyInSubmissionOrder == [](active <= 1) /\ [][FifoStep]_vars

C10_Witness ==
    /\ active = 1
    /\ cur.pc = "rb_unsetGet"
    /\ Len(queue) = 2
    /\ queue[1] # queue[2]
    /\ done.kind = "idle" /\ prevPushed # "-"

\* the await points of _rebranch
RebranchPcs == {"rb_getFork", "rb_unsetPut", "rb_unsetGet", "rb_setPut"}

\* a body is suspended at an await that is not inside _rebranch
SuspendedOutsideRebranch == Running /\ cur.pc \notin RebranchPcs \cup {"done"}

\* C11: a reader interleaved at a suspension point of a running operation that
\* is not inside a rebranch sees the store, headHash and head as the last
\* completed operation left them.
C11_NoEffectVisibleBeforeCompletion ==
    SuspendedOutsideRebranch =>
        /\ store = pre.store
        /\ headHash = pre.headHash
        /\ head = pre.mainChain.head

\* the codes a step hands back from the append path: the code the pushHeader body
\* returns, or the code _pushBlock returns to _acceptProof for a suffix block
Returns ==
    IF cur.kind = "header" /\ cur.pc # "done" /\ cur'.pc = "done" /\ cur'.status = "returned"
    THEN {cur'.code}
    ELSE IF cur.kind = "proof" /\ cur'.kind = "proof" /\ Len(cur'.codes) > Len(cur.codes)
    THEN {Last(cur'.codes)}
    ELSE {}

\* the step fires head-changed
Fires == Len(fired') > Len(fired)

HeadChangedStep ==
    /\ Fires <=> (Returns \cap {OK_EXTENDED, OK_REBRANCHED} # {})
    /\ Fires =>
          /\ Len(fired') = Len(fired) + 1
          /\ getChainData(store', hash(Last(fired'))) = mainChain'
          /\ mainChain'.onMainChain
          /\ headHash' = hash(Last(fired'))
          /\ head' = Last(fired')
          /\ cur'.kind = cur.kind /\ cur'.arg = cur.arg
          /\ done' = Idle

\* C12: head-changed fires exactly when an append returns OK_EXTENDED or
\* OK_REBRANCHED; when it fires the new block is stored with onMainChain = true,
\* headHash and mainChain point to it, the operation has not yet returned and
\* the payload is the new head block.
C12_HeadChangedOnExtendOrRebranch == [][HeadChangedStep]_vars

C12_Witness ==
    /\ cur.kind = "proof"
    /\ cur.pc = "done"
    /\ cur.codes = <<OK_FORKED, OK_REBRANCHED>>
    /\ fired = <<proofHead(cur.arg)>>
    /\ headHash = hash(proofHead(cur.arg))

\* C13: for a fixed lca and m, adding one more block at or above lca.height to
\* the chain never gives a lower _getProofScore than before.
C13_ScoreMonotone == scoring.pc = "done" => scoring.after >= scoring.before

\* one step writes headHash and head together or neither
PairStep == (headHash' # headHash) <=> (head' # head)

\* C14: at every instant, every suspension point of a running pushHeader or
\* pushProof included, the block head returns hashes to headHash, and the pair
\* changes only as a pair.
C14_HeadPairConsistent == [](hash(head) = headHash) /\ [][PairStep]_vars

C14_Witness ==
    /\ Running
    /\ cur.pc = "ap_putPrefix"
    /\ headHash # pre.headHash
    /\ head # pre.mainChain.head
    /\ store[headHash] = mainChain
    /\ Cardinality({h \in Hashes : Stored(store, h)}) = 1

\* a stored entry kept for retrieval only
Leaf(st, h) == Stored(st, h) /\ getChainData(st, h).totalDifficulty = -1

\* the entries the append path stored: not the retrieval-only prefix blocks and
\* not the block the chain starts at (genesis, or the prefix head of a reset)
Appended(st) == {h \in Hashes : Stored(st, h) /\ ~Leaf(st, h) /\ h # base}

\* C15 as stated: between operations no stored ChainData holds a block whose
\* prevHash is the hash of a stored ChainData with totalDifficulty = -1, the
\* prefix head installed by a store reset included.
C15_LeafHasNoStoredChild ==
    Quiescent =>
        \A h \in Hashes : Stored(store, h) => ~Leaf(store, prevHash(getChainData(store, h).head))

\* C15 amended: between operations no ChainData stored by the append path
\* (pushHeader, or a suffix block replayed by _pushBlock) holds a block whose
\* prevHash is the hash of a stored ChainData with totalDifficulty = -1.
C15_LeafHasNoAppendedChild ==
    Quiescent =>
        \A h \in Appended(store) : ~Leaf(store, prevHash(getChainData(store, h).head))

C15_Witness ==
    /\ HeaderDone
    /\ done.code = ERR_ORPHAN
    /\ Leaf(store, prevHash(done.arg))
    /\ Cardinality(Appended(store)) >= 2

\* the code the rule of the claim gives a block with predecessor data prevData,
\* against the head hash hh and the main chain's total
RuleCode(b, prevData, hh, mainTotal) ==
    IF prevHash(b) = hh THEN OK_EXTENDED
    ELSE IF prevData.totalDifficulty + difficulty(b) > mainTotal THEN OK_REBRANCHED
    ELSE OK_FORKED

\* a completed pushHeader of a header that passes validation
HeaderRule ==
    (HeaderDone /\ PreAppendable(done.arg)) =>
        LET b == done.arg
            forkData == ChainData(b, PreData(b).totalDifficulty + difficulty(b),
                                  PreData(b).totalWork + realDifficulty(b), FALSE)
        IN  /\ done.code = RuleCode(b, PreData(b), pre.headHash, pre.mainChain.totalDifficulty)
            /\ done.code = OK_FORKED =>
                  /\ store = [pre.store EXCEPT ![hash(b)] = forkData]
                  /\ headHash = pre.headHash
                  /\ mainChain = pre.mainChain

\* the step in which the append path hands back its code, for a header and for
\* a suffix block of a proof alike
AppendRuleStep ==
    \A code \in Returns \cap {OK_EXTENDED, OK_REBRANCHED, OK_FORKED} :
        /\ code = RuleCode(cur.blk, getChainData(store, prevHash(cur.blk)), headHash,
                           mainChain.totalDifficulty)
        /\ code = OK_FORKED =>
              /\ getChainData(store', hash(cur.blk)).head = cur.blk
              /\ ~getChainData(store', hash(cur.blk)).onMainChain
              /\ headHash' = headHash
              /\ mainChain' = mainChain

\* C16: a block that passes validation is appended by this rule: OK_EXTENDED iff
\* its prevHash is headHash; otherwise OK_REBRANCHED iff prevData.totalDifficulty
\* + block.difficulty > mainChain.totalDifficulty; otherwise OK_FORKED, stored
\* with onMainChain = false, headHash and mainChain unchanged.
C16_AppendRule == []HeaderRule /\ [][AppendRuleStep]_vars

C16_Witness ==
    /\ HeaderDone
    /\ PreAppendable(done.arg)
    /\ done.code = OK_FORKED
    /\ PreData(done.arg).totalDifficulty + difficulty(done.arg) = pre.mainChain.totalDifficulty
    /\ headHash = pre.headHash

\* the stored main chain a rebranch starts from (headHash moves only when the
\* rebranch is through), and the fork below the new block
MainBefore == MainPath(store, headHash, base, MaxWalk)
ForkBelow == MainPath(store, prevHash(cur.blk), base, MaxWalk)

\* the fork and the main chain meet in a stored block
ChainsMeet == \E i \in 1..Len(ForkBelow) : ForkBelow[i] \in Range(MainBefore) /\ Stored(store, ForkBelow[i])

\* the hash of the highest block that is on both
LcaHash ==
    ForkBelow[CHOOSE i \in 1..Len(ForkBelow) :
                 /\ ForkBelow[i] \in Range(MainBefore)
                 /\ \A k \in 1..(i - 1) : ForkBelow[k] \notin Range(MainBefore)]

\* where a running _rebranch stands
RebranchSound ==
    /\ cur.pc \in RebranchPcs => ChainsMeet
    /\ cur.pc = "rb_getFork" =>
          /\ Stored(store, cur.curHash)
          /\ cur.curHash \in Range(ForkBelow)
    /\ cur.pc = "rb_unsetGet" =>
          /\ Stored(store, cur.headHashL)
          /\ cur.headHashL \in Range(MainPath(store, headHash, cur.curHash, MaxWalk))
    /\ cur.pc \in {"rb_unsetPut", "rb_unsetGet", "rb_setPut"} =>
          /\ cur.curHash = LcaHash
          /\ getChainData(store, cur.curHash).onMainChain
    /\ cur.status = "threw" => (cur.codes # <<>> /\ Last(cur.codes) < 0)

\* C17: every _rebranch a serialized pushHeader or pushProof starts ends without
\* tripping an assertion: the walk up the fork reaches a stored block with
\* onMainChain = true, the walk down from the old head reaches that block, and
\* it is the lowest common ancestor of the fork and the main chain.
C17_RebranchEnds ==
    /\ []RebranchSound
    /\ (cur.pc \in RebranchPcs) ~> (cur.pc \notin RebranchPcs /\ cur.status # "threw")

C17_Witness ==
    /\ cur.pc = "rb_setPut"
    /\ cur.i = 0
    /\ Len(cur.forkChain) = 2
    /\ Len(MainPath(store, headHash, cur.curHash, MaxWalk)) = 3
    /\ getChainData(store, cur.forkHashes[2]).onMainChain
    /\ ~getChainData(store, headHash).onMainChain

\* the codes _pushBlock has handed to _acceptProof so far are all non-negative
ReplayOk(c) ==
    /\ \A i \in 1..Len(c.codes) : c.codes[i] \in {OK_KNOWN, OK_EXTENDED, OK_REBRANCHED, OK_FORKED}
    /\ c.status # "threw"

\* C18: for a proof that passed the three checks of _pushProof and is adopted,
\* with or without a store reset, every suffix block replayed through _pushBlock
\* returns a non-negative code: the assertion of _acceptProof never fails and
\* the whole suffix is replayed.
C18_SuffixReplayNonNegative ==
    /\ cur.kind = "proof" => ReplayOk(cur)
    /\ (ProofDone /\ ProofValid(done.arg) /\ isBetterProof(done.arg, pre.proof, M)) =>
          /\ ReplayOk(done)
          /\ done.accepted
          /\ Len(done.codes) = Len(Proofs[done.arg].suffix)

C18_Witness ==
    /\ ProofDone
    /\ done.accepted
    /\ ~done.reset
    /\ getChainData(pre.store, hash(prefixHead(done.arg))).totalDifficulty > 0
    /\ done.codes = <<OK_KNOWN, OK_REBRANCHED>>

\* C19: after every completed operation mainChain.totalDifficulty is at least
\* the totalDifficulty of every ChainData in the store: no stored side branch is
\* heavier than the main chain.
C19_HeadIsHeaviest ==
    Quiescent =>
        \A h \in Hashes :
            Stored(store, h) => getChainData(store, h).totalDifficulty <= mainChain.totalDifficulty

C19_Witness ==
    /\ Quiescent
    /\ \E h \in Hashes : /\ Stored(store, h)
                         /\ ~getChainData(store, h).onMainChain
                         /\ getChainData(store, h).totalDifficulty = mainChain.totalDifficulty
    /\ \E h \in Hashes : /\ Stored(store, h)
                         /\ ~getChainData(store, h).onMainChain
                         /\ getChainData(store, h).totalDifficulty \in 1..(mainChain.totalDifficulty - 1)
    /\ done.kind = "header" /\ done.code = OK_FORKED

\* C20: a completed pushHeader or pushProof that leaves headHash different from
\* what it was before the operation fired head-changed at least once, and the
\* last payload is the block headHash designates.
C20_HeadMoveFiresEvent ==
    ((HeaderDone \/ ProofDone) /\ headHash # pre.headHash) =>
        (fired # <<>> /\ hash(Last(fired)) = headHash /\ Last(fired) = head)

====
